---- MODULE Spec2Model ----
(***************************************************************************)
(* Resumable batch backfill of evaluation score details from a relational  *)
(* store into per-tenant search indices.  Two drivers are modelled:        *)
(*   variant = "point"   the point-query driver   (src/src/script.ts)      *)
(*   variant = "stream"  the streaming-cursor one (src/unnamed/part_000)   *)
(* A behaviour is a sequence of runs of one driver over an unchanged       *)
(* relational data set, sharing the checkpoint file and the failure log.   *)
(* A run ends at DONE, by a relational query failure, or by a kill of the  *)
(* process; what is on disk then is what the next run starts from.         *)
(***************************************************************************)
EXTENDS Integers, Sequences, FiniteSets, TLC

VARIABLES
    variant,        \* which driver runs
    db,             \* the relational data: one record per evaluation
    file,           \* PROGRESS_FILE on disk
    tmp,            \* PROGRESS_FILE + ".tmp" on disk
    failedLog,      \* FAILED_FILE on disk: the appended records, in order
    run,            \* number of the current run
    pc,             \* position of the driver
    processed,      \* the in-memory Checkpoint Set
    evaluationIds,  \* point: the discovered unit ids
    idx,            \* point: index of the unit the loop examines next
    cursorPos,      \* stream: number of rows the cursor has delivered
    rows,           \* stream: the row batch fetched last
    grouped,        \* stream: the groups of the batch, in insertion order
    gidx,           \* stream: index of the group staged next
    bulkBody,       \* the buffered bulk request
    bulkCount,      \* number of buffered operations
    pendingIds,     \* ids of the buffered operations
    success, failed, skipped, processedCount,
    flushReason,    \* "periodic" or "final"
    res,            \* what the last flushBulk call returned
    loaded,         \* history: the set loadProgress returned in this run
    examDone,       \* history: the in-memory set the fetched batch was tested against
    logAtStart,     \* history: length of the failure log when this run started
    staged,         \* history: the targets queueUpdate was called with in this run
    flushes,        \* history: every non-empty flush of this run: its ids, the
                    \* store's response, and the state before it
    orderly,        \* history: every run so far ran to DONE, and every response
                    \* of the store was a throw or one outcome per operation
    lost,           \* history: the ids that were buffered when a query failure
                    \* ended the previous run
    confirmed       \* history: the ids of the initial checkpoint file, and the
                    \* ids the store has returned an outcome without error for

vars == << variant, db, file, tmp, failedLog, run, pc, processed, evaluationIds,
           idx, cursorPos, rows, grouped, gidx, bulkBody, bulkCount, pendingIds,
           success, failed, skipped, processedCount, flushReason, res,
           loaded, examDone, logAtStart, staged, flushes, orderly, lost,
           confirmed >>

(***************************************************************************)
(* Bounds of the model.                                                    *)
(***************************************************************************)
NumUnits == 1          \* evaluations of a generic data set
MaxRuns == 2           \* runs of the driver in a behaviour
ItemsSlack == 1        \* how far the store's outcome count may be off
StreamBatchSize == 2   \* stands for BATCH_SIZE = 5000 of the cursor driver
StreamFlushSize == 2   \* stands for BULK_FLUSH_SIZE = 1000 of the cursor driver

(***************************************************************************)
(* Program constants of the point-query driver.                            *)
(***************************************************************************)
BULK_FLUSH_SIZE == 3
MAX_REQUESTS == 3
EXCLUDED_CLIENT_ID == "0e57b625-ff35-11ef-8005-0ebcd8044491"

(***************************************************************************)
(* Values.                                                                 *)
(***************************************************************************)
Null == "<null>"            \* SQL NULL / JS null in a text column
Undef == "<undefined>"      \* JS undefined in a text field
ExcludedUpper == "0E57B625-FF35-11EF-8005-0EBCD8044491"

\* JS truthiness of a text value
Truthy(s) == s \notin {Null, Undef, ""}

\* JS `s || undefined`
OrUndefined(s) == IF Truthy(s) THEN s ELSE Undef

\* mutant: the tenant identifier is compared as stored, not lower-cased
ToLowerCaseOmitted(s) == s

\* String.prototype.toLowerCase on the tenant identifiers of the model
ToLowerCase(s) ==
    CASE s = "T2" -> "t2"
      [] s = ExcludedUpper -> EXCLUDED_CLIENT_ID
      [] OTHER -> s

\* Math.round(Number(score)), scores kept in hundredths; Number(null) is 0
MathRound(h) == (h + 50) \div 100

\* a phrases column: null, or an array of strings
NullPhrases == [isArray |-> FALSE, items |-> << >>]
Phrases(items) == [isArray |-> TRUE, items |-> items]
HasPhrases(p) == p.isArray /\ Len(p.items) > 0

(***************************************************************************)
(* The relational data.  An evaluation is a record                         *)
(*   [client, contactClient, details]                                      *)
(* client / contactClient: external id of the evaluation's client and of   *)
(* the client of its contact; details: its evaluation_score_details rows   *)
(* already joined to score_detail_categories.                              *)
(***************************************************************************)
IdOrder == << "A", "B", "C", "D", "E", "F", "G" >>

FullRow == [category_id |-> "c1", score |-> 350, justification |-> "because",
            phrases |-> Phrases(<< "p1" >>),
            category_slug |-> "slug1", category_name |-> "Name1"]
JustRow == [category_id |-> "c2", score |-> 349, justification |-> "why",
            phrases |-> NullPhrases,
            category_slug |-> Null, category_name |-> Null]
EmptyRow == [category_id |-> "c9", score |-> 100, justification |-> "",
             phrases |-> Phrases(<< >>),
             category_slug |-> Null, category_name |-> Null]

PGood      == [client |-> "t1", contactClient |-> Null, details |-> << FullRow >>]
PMixed     == [client |-> Null, contactClient |-> "T2", details |-> << EmptyRow, JustRow >>]
PAllEmpty  == [client |-> "t1", contactClient |-> Null, details |-> << EmptyRow >>]
PNoDetail  == [client |-> "t1", contactClient |-> Null, details |-> << >>]
PNoTenant  == [client |-> Null, contactClient |-> Null, details |-> << FullRow >>]
PExclLower == [client |-> EXCLUDED_CLIENT_ID, contactClient |-> "t1", details |-> << FullRow >>]
PExclUpper == [client |-> Null, contactClient |-> ExcludedUpper, details |-> << JustRow >>]

Profiles == { PGood, PMixed, PAllEmpty, PNoDetail, PNoTenant, PExclLower, PExclUpper }

GenericData == [1..NumUnits -> Profiles]

\* seven units A..G: B-F eligible, G with empty score details only
EndToEndData == << PGood, PGood, PMixed, PGood, PGood, PGood, PAllEmpty >>

\* four units A..D: A of the excluded tenant, B with two detail rows that the
\* cursor delivers in two fetches when it fetches two rows at a time, C with one
\* detail row, D with none
StraddleData == << PExclUpper, PMixed, PGood, PNoDetail >>

IdOf(i) == IdOrder[i]
IndexOf(id) == CHOOSE i \in 1..Len(IdOrder) : IdOrder[i] = id
UnitIds(d) == { IdOf(i) : i \in 1..Len(d) }

RECURSIVE SeqSelectIdx(_, _, _)
\* the ids of the evaluations i..Len(d) that have at least one detail row
SeqSelectIdx(d, i, acc) ==
    IF i > Len(d) THEN acc
    ELSE SeqSelectIdx(d, i + 1,
                      IF Len(d[i].details) > 0 THEN Append(acc, IdOf(i)) ELSE acc)

\* SELECT DISTINCT evaluation_id FROM evaluation_score_details
DistinctEvaluationIds(d) == SeqSelectIdx(d, 1, << >>)

\* SELECT ... FROM evaluation_score_details esd LEFT JOIN ... WHERE evaluation_id = $1
DetailRows(d, id) == d[IndexOf(id)].details

\* SELECT e.id, cl.external_id, cc.external_id FROM evaluations e ... WHERE e.id = $1
EvRows(d, id) ==
    << [client_external_id |-> d[IndexOf(id)].client,
        contact_client_external_id |-> d[IndexOf(id)].contactClient] >>

\* SQL COALESCE of two text values
Coalesce(a, b) == IF a # Null THEN a ELSE b

\* the rows one evaluation contributes to the wide cursor query: one per detail
\* row, or a single row with NULL detail columns when it has none (LEFT JOIN)
JoinRows(d, i) ==
    LET ext == Coalesce(d[i].client, d[i].contactClient)
        nullRow == [category_id |-> Null, score |-> 0, justification |-> Null,
                    phrases |-> NullPhrases,
                    category_slug |-> Null, category_name |-> Null]
        wide(r) == [evaluation_id |-> IdOf(i), external_client_id |-> ext,
                    category_id |-> r.category_id, score |-> r.score,
                    justification |-> r.justification, phrases |-> r.phrases,
                    category_slug |-> r.category_slug,
                    category_name |-> r.category_name]
    IN  IF Len(d[i].details) = 0 THEN << wide(nullRow) >>
        ELSE [k \in 1..Len(d[i].details) |-> wide(d[i].details[k])]

RECURSIVE CursorRowsFrom(_, _)
CursorRowsFrom(d, i) ==
    IF i > Len(d) THEN << >> ELSE JoinRows(d, i) \o CursorRowsFrom(d, i + 1)

\* all rows of the cursor query, in delivery order
CursorRows(d) == CursorRowsFrom(d, 1)

(***************************************************************************)
(* Transformer.                                                            *)
(***************************************************************************)
\* one detail row as a ScoreDetailOut
ToScoreDetail(d) ==
    [categoryId |-> d.category_id,
     categorySlug |-> OrUndefined(d.category_slug),
     categoryName |-> OrUndefined(d.category_name),
     score |-> MathRound(d.score),
     justification |-> OrUndefined(d.justification),
     phrases |-> IF HasPhrases(d.phrases) THEN d.phrases ELSE NullPhrases]

\* the filter predicate of the point-query driver
NonEmptyDetail(o) ==
    \/ Truthy(o.categorySlug)
    \/ Truthy(o.categoryName)
    \/ Truthy(o.justification)
    \/ HasPhrases(o.phrases)

\* details.map(...).filter(...) of the point-query driver
ScoreDetails(details) ==
    SelectSeq([k \in 1..Len(details) |-> ToScoreDetail(details[k])], NonEmptyDetail)

\* the tenant identifier the point-query driver resolves for a unit
ExternalClientId(evRows) ==
    LET ev == evRows[1]
    IN  ToLowerCase(IF Truthy(ev.client_external_id) THEN ev.client_external_id
                    ELSE IF Truthy(ev.contact_client_external_id)
                         THEN ev.contact_client_external_id
                         ELSE "")

\* the tenant identifier the cursor driver takes from a row
RowClientId(row) ==
    ToLowerCase(IF Truthy(row.external_client_id) THEN row.external_client_id ELSE "")

\* the test both drivers apply to a tenant identifier
TenantExcluded(externalClientId) ==
    ~Truthy(externalClientId) \/ externalClientId = EXCLUDED_CLIENT_ID

\* mutant: the checkpoint is never consulted
AlreadyProcessedNever(done, id) == FALSE

\* the test both drivers apply to a unit id before anything else
AlreadyProcessed(done, id) == id \in done

PointIndexName(externalClientId) == "contact_evaluation__" \o externalClientId
StreamIndexName(clientId) == "contact_evaluation___" \o clientId

RECURSIVE GroupRows(_, _, _)
\* the grouping loop of the cursor driver over one fetched batch: the groups in
\* insertion order, rows of checkpointed or excluded units left out
GroupRows(rs, done, acc) ==
    IF rs = << >> THEN acc
    ELSE LET row == Head(rs)
             evId == row.evaluation_id
             cid == RowClientId(row)
             hit == { g \in 1..Len(acc) : acc[g].evId = evId }
         IN  IF AlreadyProcessed(done, evId) \/ TenantExcluded(cid)
             THEN GroupRows(Tail(rs), done, acc)
             ELSE IF hit = {}
                  THEN GroupRows(Tail(rs), done,
                           Append(acc, [evId |-> evId, clientId |-> cid,
                                        details |-> << ToScoreDetail(row) >>]))
                  ELSE LET g == CHOOSE h \in hit : TRUE
                       IN  GroupRows(Tail(rs), done,
                               [acc EXCEPT ![g].details = Append(@, ToScoreDetail(row))])

\* the rows of a fetched batch the grouping loop counts as skipped
SkippedRows(rs, done) ==
    Cardinality({ k \in 1..Len(rs) :
                    \/ AlreadyProcessed(done, rs[k].evaluation_id)
                    \/ TenantExcluded(RowClientId(rs[k])) })

(***************************************************************************)
(* Checkpoint file and failure log.                                        *)
(***************************************************************************)
MissingFile == [state |-> "missing", ids |-> {}]
MalformedFile == [state |-> "malformed", ids |-> {}]
JsonArrayFile(ids) == [state |-> "ok", ids |-> ids]
\* what an interrupted fs.writeFileSync leaves behind
TornFile == [state |-> "torn", ids |-> {}]

\* mutant: every run starts from the empty set
LoadProgressFresh(f) == {}

\* loadProgress: a missing, empty or malformed file degrades to the empty set
LoadProgress(f) == IF f.state = "ok" THEN f.ids ELSE {}

\* appendFailed: the records appended for ids (the timestamp is left out)
FailedRecords(ids, reason) == [k \in 1..Len(ids) |-> [id |-> ids[k], reason |-> reason]]

(***************************************************************************)
(* Batch submitter.                                                        *)
(***************************************************************************)
\* what es.bulk can do with n buffered operations: throw, or return a list of
\* outcomes, TRUE standing for an outcome that carries an error
Responses(n) ==
    LET lo == IF n > ItemsSlack THEN n - ItemsSlack ELSE 0
    IN  {[transport |-> TRUE, items |-> << >>]} \cup
        { [transport |-> FALSE, items |-> s] :
              s \in UNION { [1..k -> BOOLEAN] : k \in lo..(n + ItemsSlack) } }

RECURSIVE PickIds(_, _, _, _)
\* the ids pend[i] (where there is one), i from k on, whose outcome items[i] has
\* error marker = marker, in order
PickIds(items, pend, k, marker) ==
    IF k > Len(items) THEN << >>
    ELSE (IF items[k] = marker /\ k <= Len(pend) THEN << pend[k] >> ELSE << >>)
         \o PickIds(items, pend, k + 1, marker)

\* the number of outcomes without an error marker
OkCount(items) == Cardinality({ k \in 1..Len(items) : ~items[k] })

\* the fail count flushBulk reports
FailCount(v, items, failedIds) ==
    IF v = "point" THEN Len(items) - OkCount(items) ELSE Len(failedIds)

NoResult == [ok |-> 0, fail |-> 0, succeededIds |-> << >>, failedIds |-> << >>]

\* mutant: one item error fails the whole batch
FlushResultAllOrNothing(v, resp, pend) ==
    IF resp.transport \/ \E k \in 1..Len(resp.items) : resp.items[k]
    THEN [ok |-> 0, fail |-> Len(pend), succeededIds |-> << >>, failedIds |-> pend]
    ELSE [ok |-> OkCount(resp.items), fail |-> 0,
          succeededIds |-> PickIds(resp.items, pend, 1, FALSE),
          failedIds |-> << >>]

\* mutant: a transport error returns the failure count without the failed ids
FlushResultLosesPending(v, resp, pend) ==
    IF resp.transport
    THEN [ok |-> 0, fail |-> Len(pend), succeededIds |-> << >>, failedIds |-> << >>]
    ELSE LET failedIds == PickIds(resp.items, pend, 1, TRUE)
         IN  [ok |-> OkCount(resp.items),
              fail |-> FailCount(v, resp.items, failedIds),
              succeededIds |-> PickIds(resp.items, pend, 1, FALSE),
              failedIds |-> failedIds]

\* mutant: the error marker of an outcome is not looked at
FlushResultIgnoresErrors(v, resp, pend) ==
    IF resp.transport
    THEN [ok |-> 0, fail |-> Len(pend), succeededIds |-> << >>, failedIds |-> pend]
    ELSE [ok |-> Len(resp.items), fail |-> 0,
          succeededIds |-> PickIds(resp.items, pend, 1, FALSE)
                              \o PickIds(resp.items, pend, 1, TRUE),
          failedIds |-> << >>]

\* what flushBulk returns for a non-empty buffer
FlushResult(v, resp, pend) ==
    IF resp.transport
    THEN [ok |-> 0, fail |-> Len(pend), succeededIds |-> << >>, failedIds |-> pend]
    ELSE LET failedIds == PickIds(resp.items, pend, 1, TRUE)
         IN  [ok |-> OkCount(resp.items),
              fail |-> FailCount(v, resp.items, failedIds),
              succeededIds |-> PickIds(resp.items, pend, 1, FALSE),
              failedIds |-> failedIds]

\* mutant: only the action header is appended to the bulk body
BulkEntriesHeaderOnly(indexName, id, doc) ==
    << [update |-> [_index |-> indexName, _id |-> id,
                    retry_on_conflict |-> 3, require_alias |-> TRUE]] >>

\* the two entries queueUpdate appends to the bulk body
BulkEntries(indexName, id, doc) ==
    << [update |-> [_index |-> indexName, _id |-> id,
                    retry_on_conflict |-> 3, require_alias |-> TRUE]],
       [doc |-> doc] >>

\* mutant: the driver flushes when the count exceeds the threshold (> for >=)
FlushSizeExceeded(v) == (IF v = "point" THEN BULK_FLUSH_SIZE ELSE StreamFlushSize) + 1

\* the threshold bulkCount is compared with after a stage
FlushSize(v) == IF v = "point" THEN BULK_FLUSH_SIZE ELSE StreamFlushSize

Range(s) == { s[k] : k \in 1..Len(s) }

\* the ids of a batch the store's response pairs with an outcome without error
ConfirmedIds(resp, pend) ==
    IF resp.transport THEN {}
    ELSE { pend[i] : i \in { j \in 1..Len(pend) : j <= Len(resp.items)
                                                   /\ ~resp.items[j] } }

(***************************************************************************)
(* Sync driver.                                                            *)
(***************************************************************************)
Init ==
    /\ variant \in {"point", "stream"}
    /\ \/ /\ db \in GenericData
          /\ file \in {MissingFile, JsonArrayFile({"A"})}
       \/ /\ variant = "point"
          /\ db = EndToEndData
          /\ file = JsonArrayFile({"A"})
       \/ /\ db = StraddleData
          /\ file = MalformedFile
    /\ tmp = MissingFile
    /\ failedLog = << >>
    /\ run = 1
    /\ pc = "init"
    /\ processed = {}
    /\ evaluationIds = << >>
    /\ idx = 1
    /\ cursorPos = 0
    /\ rows = << >>
    /\ grouped = << >>
    /\ gidx = 1
    /\ bulkBody = << >>
    /\ bulkCount = 0
    /\ pendingIds = << >>
    /\ success = 0
    /\ failed = 0
    /\ skipped = 0
    /\ processedCount = 0
    /\ flushReason = "periodic"
    /\ res = NoResult
    /\ loaded = {}
    /\ examDone = {}
    /\ logAtStart = 0
    /\ staged = << >>
    /\ flushes = << >>
    /\ orderly = TRUE
    /\ lost = {}
    /\ confirmed = LoadProgress(file)

\* a process starts: module initialisation, pg.connect, loadProgress, and the
\* discovery query (point) or the opening of the cursor (stream)
StartRun ==
    /\ pc = "init" \/ (pc \in {"done", "aborted", "crashed"} /\ run < MaxRuns)
    /\ run' = IF pc = "init" THEN run ELSE run + 1
    /\ processed' = LoadProgress(file)
    /\ loaded' = LoadProgress(file)
    /\ evaluationIds' = IF variant = "point" THEN DistinctEvaluationIds(db) ELSE << >>
    /\ idx' = 1
    /\ cursorPos' = 0
    /\ rows' = << >>
    /\ grouped' = << >>
    /\ gidx' = 1
    /\ bulkBody' = << >>
    /\ bulkCount' = 0
    /\ pendingIds' = << >>
    /\ success' = 0
    /\ failed' = 0
    /\ skipped' = 0
    /\ processedCount' = 0
    /\ flushReason' = "periodic"
    /\ res' = NoResult
    /\ examDone' = LoadProgress(file)
    /\ logAtStart' = Len(failedLog)
    /\ staged' = << >>
    /\ pc' = IF variant = "point" THEN "loop" ELSE "read"
    /\ flushes' = << >>
    /\ lost' = IF pc = "aborted" THEN lost ELSE {}
    /\ UNCHANGED << variant, db, file, tmp, failedLog, orderly, confirmed >>

\* queueUpdate
QueueUpdate(indexName, id, doc, seen, at) ==
    /\ bulkBody' = bulkBody \o BulkEntries(indexName, id, doc)
    /\ bulkCount' = bulkCount + 1
    /\ pendingIds' = Append(pendingIds, id)
    /\ staged' = Append(staged, [indexName |-> indexName, id |-> id, doc |-> doc,
                                 doneAtExam |-> seen, at |-> at])

\* the cap test at the head of the point-query loop
CapReached(count) == MAX_REQUESTS # 0 /\ count >= MAX_REQUESTS

\* what the point-query loop body decides for a unit: skip it, or the target
PointTarget(d, done, id) ==
    LET details == DetailRows(d, id)
        scoreDetails == ScoreDetails(details)
        externalClientId == ExternalClientId(EvRows(d, id))
    IN  IF \/ AlreadyProcessed(done, id)
           \/ Len(details) = 0
           \/ Len(scoreDetails) = 0
           \/ TenantExcluded(externalClientId)
        THEN [eligible |-> FALSE, indexName |-> "", doc |-> [scoreDetails |-> << >>]]
        ELSE [eligible |-> TRUE, indexName |-> PointIndexName(externalClientId),
              doc |-> [scoreDetails |-> scoreDetails]]

\* point: the loop ends, at the end of the list or at the cap
LoopExit ==
    /\ variant = "point" /\ pc = "loop"
    /\ idx > Len(evaluationIds) \/ CapReached(processedCount)
    /\ pc' = "flush"
    /\ flushReason' = "final"
    /\ UNCHANGED << variant, db, file, tmp, failedLog, run, processed, evaluationIds,
                    idx, cursorPos, rows, grouped, gidx, bulkBody, bulkCount,
                    pendingIds, success, failed, skipped, processedCount, res,
                    loaded, examDone, logAtStart, staged, flushes, orderly,
                    lost, confirmed >>

\* point: one iteration that ends in `continue`
SkipUnit ==
    /\ variant = "point" /\ pc = "loop"
    /\ idx <= Len(evaluationIds) /\ ~CapReached(processedCount)
    /\ ~PointTarget(db, processed, evaluationIds[idx]).eligible
    /\ skipped' = skipped + 1
    /\ idx' = idx + 1
    /\ UNCHANGED << variant, db, file, tmp, failedLog, run, pc, processed,
                    evaluationIds, cursorPos, rows, grouped, gidx, bulkBody,
                    bulkCount, pendingIds, success, failed, processedCount,
                    flushReason, res, loaded, examDone, logAtStart, staged, flushes, orderly,
                    lost, confirmed >>

\* point: one iteration that stages the unit, up to the threshold test
StageUnit ==
    /\ variant = "point" /\ pc = "loop"
    /\ idx <= Len(evaluationIds) /\ ~CapReached(processedCount)
    /\ LET id == evaluationIds[idx]
           t == PointTarget(db, processed, id)
       IN  /\ t.eligible
           /\ QueueUpdate(t.indexName, id, t.doc, processed, idx)
    /\ processedCount' = processedCount + 1
    /\ idx' = idx + 1
    /\ IF bulkCount + 1 >= FlushSize(variant)
       THEN pc' = "flush" /\ flushReason' = "periodic"
       ELSE pc' = "loop" /\ UNCHANGED flushReason
    /\ UNCHANGED << variant, db, file, tmp, failedLog, run, processed, evaluationIds,
                    cursorPos, rows, grouped, gidx, success, failed, skipped,
                    res, loaded, examDone, logAtStart, flushes, orderly,
                    lost, confirmed >>

\* mutant: the cursor delivers all remaining rows in one fetch
NextBatchWhole(d, pos) == SubSeq(CursorRows(d), pos + 1, Len(CursorRows(d)))

\* the rows cursor.read delivers next
NextBatch(d, pos) ==
    LET all == CursorRows(d)
        to == IF pos + StreamBatchSize <= Len(all) THEN pos + StreamBatchSize
              ELSE Len(all)
    IN  SubSeq(all, pos + 1, to)

\* stream: readNextBatch and the grouping loop over the fetched rows
ReadBatch ==
    /\ variant = "stream" /\ pc = "read"
    /\ LET batch == NextBatch(db, cursorPos)
       IN  /\ rows' = batch
           /\ cursorPos' = cursorPos + Len(batch)
           /\ grouped' = GroupRows(batch, processed, << >>)
           /\ skipped' = skipped + SkippedRows(batch, processed)
    /\ examDone' = processed
    /\ gidx' = 1
    /\ pc' = "stage"
    /\ UNCHANGED << variant, db, file, tmp, failedLog, run, processed, evaluationIds,
                    idx, bulkBody, bulkCount, pendingIds, success, failed,
                    processedCount, flushReason, res, loaded, logAtStart, staged,
                    flushes, orderly,
                    lost, confirmed >>

\* stream: one iteration of the loop over the groups, up to the threshold test
StageGroup ==
    /\ variant = "stream" /\ pc = "stage"
    /\ gidx <= Len(grouped)
    /\ LET g == grouped[gidx]
       IN  IF Len(g.details) = 0
           THEN /\ UNCHANGED << bulkBody, bulkCount, pendingIds, staged, flushReason >>
                /\ pc' = "stage"
           ELSE /\ QueueUpdate(StreamIndexName(g.clientId), g.evId,
                               [scoreDetails |-> g.details], examDone, cursorPos)
                /\ IF bulkCount + 1 >= FlushSize(variant)
                   THEN pc' = "flush" /\ flushReason' = "periodic"
                   ELSE pc' = "stage" /\ UNCHANGED flushReason
    /\ gidx' = gidx + 1
    /\ UNCHANGED << variant, db, file, tmp, failedLog, run, processed, evaluationIds,
                    idx, cursorPos, rows, grouped, success, failed, skipped,
                    processedCount, res, loaded, examDone, logAtStart, flushes, orderly,
                    lost, confirmed >>

\* stream: the groups of the batch are done; `while (rows.length > 0)`
BatchDone ==
    /\ variant = "stream" /\ pc = "stage"
    /\ gidx > Len(grouped)
    /\ IF Len(rows) > 0
       THEN pc' = "read" /\ UNCHANGED flushReason
       ELSE pc' = "flush" /\ flushReason' = "final"
    /\ UNCHANGED << variant, db, file, tmp, failedLog, run, processed, evaluationIds,
                    idx, cursorPos, rows, grouped, gidx, bulkBody, bulkCount,
                    pendingIds, success, failed, skipped, processedCount, res,
                    loaded, examDone, logAtStart, staged, flushes, orderly,
                    lost, confirmed >>

\* mutant: the driver goes back to the units after the final flush as well
AfterFlushNeverDone(v, reason) == IF v = "point" THEN "loop" ELSE "stage"

\* where the driver continues once a flush is reconciled
AfterFlush(v, reason) ==
    IF reason = "final" THEN "done" ELSE IF v = "point" THEN "loop" ELSE "stage"

\* the ids the reconciliation adds to the in-memory set
IdsToAdd(succeededIds) == Range(succeededIds)

\* mutant: progress is not persisted by the reconciliation of a flush
MustSaveNever(v, done, succeededIds) == FALSE

\* whether the reconciliation calls saveProgress
MustSave(v, done, succeededIds) ==
    IF v = "point" THEN Range(succeededIds) \ done # {} ELSE Len(succeededIds) > 0

\* whether the reconciliation calls appendFailed with something to append
MustAppend(failedIds) == Len(failedIds) > 0

\* flushBulk on an empty buffer, and the reconciliation of its empty result
FlushEmpty ==
    /\ pc = "flush"
    /\ Len(bulkBody) = 0
    /\ res' = NoResult
    /\ pc' = AfterFlush(variant, flushReason)
    /\ UNCHANGED << variant, db, file, tmp, failedLog, run, processed, evaluationIds,
                    idx, cursorPos, rows, grouped, gidx, bulkBody, bulkCount,
                    pendingIds, success, failed, skipped, processedCount,
                    flushReason, loaded, examDone, logAtStart, staged, flushes, orderly,
                    lost, confirmed >>

\* flushBulk on a non-empty buffer: the request, the classification of its
\* outcomes, and the in-memory part of the reconciliation
FlushBulk ==
    /\ pc = "flush"
    /\ Len(bulkBody) # 0
    /\ \E resp \in Responses(Len(pendingIds)) :
         LET r == FlushResult(variant, resp, pendingIds)
         IN  /\ res' = r
             /\ success' = success + r.ok
             /\ failed' = failed + r.fail
             /\ processed' = processed \cup IdsToAdd(r.succeededIds)
             /\ flushes' = Append(flushes,
                     [reason |-> flushReason, pending |-> pendingIds, resp |-> resp,
                      processedBefore |-> processed, fileBefore |-> file,
                      logBefore |-> failedLog])
             /\ orderly' = (orderly /\ (resp.transport
                                          \/ Len(resp.items) = Len(pendingIds)))
             /\ confirmed' = confirmed \cup ConfirmedIds(resp, pendingIds)
             /\ pc' = IF MustSave(variant, processed, r.succeededIds) THEN "writeTmp"
                      ELSE IF MustAppend(r.failedIds) THEN "append"
                      ELSE AfterFlush(variant, flushReason)
    /\ bulkBody' = << >>
    /\ bulkCount' = 0
    /\ pendingIds' = << >>
    /\ UNCHANGED << variant, db, file, tmp, failedLog, run, evaluationIds, idx,
                    cursorPos, rows, grouped, gidx, skipped, processedCount,
                    flushReason, loaded, examDone, logAtStart, staged, lost >>

\* what saveProgress writes for the in-memory set
SavedContent(done) == JsonArrayFile(done)

\* mutant: saveProgress writes the checkpoint file in place
SaveWriteInPlace ==
    /\ pc = "writeTmp"
    /\ file' = SavedContent(processed)
    /\ pc' = "rename"
    /\ tmp' = SavedContent(processed)
    /\ UNCHANGED << variant, db, failedLog, run, processed, evaluationIds, idx,
                    cursorPos, rows, grouped, gidx, bulkBody, bulkCount, pendingIds,
                    success, failed, skipped, processedCount, flushReason, res,
                    loaded, examDone, logAtStart, staged, flushes, orderly,
                    lost, confirmed >>

\* saveProgress, first half: fs.writeFileSync(tmp, ...)
SaveWrite ==
    /\ pc = "writeTmp"
    /\ tmp' = SavedContent(processed)
    /\ pc' = "rename"
    /\ UNCHANGED << variant, db, file, failedLog, run, processed, evaluationIds, idx,
                    cursorPos, rows, grouped, gidx, bulkBody, bulkCount, pendingIds,
                    success, failed, skipped, processedCount, flushReason, res,
                    loaded, examDone, logAtStart, staged, flushes, orderly,
                    lost, confirmed >>

\* saveProgress, second half: fs.renameSync(tmp, PROGRESS_FILE)
SaveRename ==
    /\ pc = "rename"
    /\ file' = tmp
    /\ tmp' = MissingFile
    /\ pc' = IF MustAppend(res.failedIds) THEN "append"
             ELSE AfterFlush(variant, flushReason)
    /\ UNCHANGED << variant, db, failedLog, run, processed, evaluationIds, idx,
                    cursorPos, rows, grouped, gidx, bulkBody, bulkCount, pendingIds,
                    success, failed, skipped, processedCount, flushReason, res,
                    loaded, examDone, logAtStart, staged, flushes, orderly,
                    lost, confirmed >>

\* appendFailed(failedIds, "bulk-periodic" | "bulk-final")
AppendFailed ==
    /\ pc = "append"
    /\ failedLog' = failedLog \o FailedRecords(res.failedIds, "bulk-" \o flushReason)
    /\ pc' = AfterFlush(variant, flushReason)
    /\ UNCHANGED << variant, db, file, tmp, run, processed, evaluationIds, idx,
                    cursorPos, rows, grouped, gidx, bulkBody, bulkCount, pendingIds,
                    success, failed, skipped, processedCount, flushReason, res,
                    loaded, examDone, logAtStart, staged, flushes, orderly,
                    lost, confirmed >>

\* the in-memory state of a process that has ended
Ended ==
    /\ processed' = {}
    /\ evaluationIds' = << >>
    /\ idx' = 1
    /\ cursorPos' = 0
    /\ rows' = << >>
    /\ grouped' = << >>
    /\ gidx' = 1
    /\ bulkBody' = << >>
    /\ bulkCount' = 0
    /\ pendingIds' = << >>
    /\ success' = 0
    /\ failed' = 0
    /\ skipped' = 0
    /\ processedCount' = 0
    /\ flushReason' = "periodic"
    /\ res' = NoResult
    /\ loaded' = {}
    /\ examDone' = {}
    /\ staged' = << >>
    /\ flushes' = << >>
    /\ logAtStart' = 0

\* the driver is about to issue a relational query: the discovery query or a
\* per-unit query of the point-query loop, or cursor.read of the cursor driver
AtQuery ==
    \/ /\ variant = "point" /\ pc = "loop"
       /\ ~CapReached(processedCount)
       /\ \/ idx = 1
          \/ idx <= Len(evaluationIds) /\ ~AlreadyProcessed(processed, evaluationIds[idx])
    \/ variant = "stream" /\ pc = "read"

\* a relational query rejects: the promise of backfillScoreDetailsLocal rejects
\* and the process exits with status 1, without the final flush
QueryFails ==
    /\ AtQuery
    /\ pc' = "aborted"
    /\ lost' = Range(pendingIds)
    /\ orderly' = FALSE
    /\ Ended
    /\ UNCHANGED << variant, db, file, tmp, failedLog, run, confirmed >>

\* the process is killed; a kill inside fs.writeFileSync may leave the
\* temporary file torn
Crash ==
    /\ pc \in {"loop", "read", "stage", "flush", "writeTmp", "rename", "append"}
    /\ pc' = "crashed"
    /\ tmp' \in IF pc = "writeTmp" THEN {tmp, TornFile} ELSE {tmp}
    /\ lost' = {}
    /\ orderly' = FALSE
    /\ Ended
    /\ UNCHANGED << variant, db, file, failedLog, run, confirmed >>

Next ==
    \/ StartRun
    \/ LoopExit
    \/ SkipUnit
    \/ StageUnit
    \/ ReadBatch
    \/ StageGroup
    \/ BatchDone
    \/ FlushEmpty
    \/ FlushBulk
    \/ SaveWrite
    \/ SaveRename
    \/ AppendFailed
    \/ QueryFails
    \/ Crash

Spec == Init /\ [][Next]_vars

\* the steps of a running driver; a process that is neither killed nor hit by a
\* query failure goes on to its next step (the awaited calls return)
Drive ==
    \/ LoopExit
    \/ SkipUnit
    \/ StageUnit
    \/ ReadBatch
    \/ StageGroup
    \/ BatchDone
    \/ FlushEmpty
    \/ FlushBulk
    \/ SaveWrite
    \/ SaveRename
    \/ AppendFailed

LiveSpec == Init /\ [][Next]_vars /\ WF_vars(Drive)

(***************************************************************************)
(* Vocabulary of the properties.                                           *)
(***************************************************************************)
\* the last non-empty flush of the current run
HasFlush == Len(flushes) > 0
Last == flushes[Len(flushes)]

\* the reconciliation of the last flush (save, append) is complete
Reconciled == pc \notin {"writeTmp", "rename", "append"}

StagedIds == { staged[k].id : k \in 1..Len(staged) }
FlushedIds == UNION { Range(flushes[k].pending) : k \in 1..Len(flushes) }
LoggedIds(from, to) == { failedLog[k].id : k \in from..to }

\* the units a run stages when nothing is checkpointed
Stageable ==
    IF variant = "point"
    THEN { id \in Range(DistinctEvaluationIds(db)) : PointTarget(db, {}, id).eligible }
    ELSE { g.evId : g \in Range(GroupRows(CursorRows(db), {}, << >>)) }

\* positions of a response's outcomes with / without an error marker
ErrorPositions(f) == { i \in 1..Len(f.resp.items) : f.resp.items[i] }
CleanPositions(f) == { i \in 1..Len(f.resp.items) : ~f.resp.items[i] }

\* the k-th smallest element of a set of positions
KthOf(S, k) == CHOOSE i \in S : Cardinality({ j \in S : j < i }) = k - 1

\* the store returned exactly one outcome per submitted operation
Paired(f) == ~f.resp.transport /\ Len(f.resp.items) = Len(f.pending)

\* the part of the failure log appended since flush f was issued
LogSince(f) == SubSeq(failedLog, Len(f.logBefore) + 1, Len(failedLog))
LogKeeps(f) == SubSeq(failedLog, 1, Len(f.logBefore)) = f.logBefore

(***************************************************************************)
(* C1.  Idempotence as stated: the second of two successive runs has a     *)
(* success count of 0 and adds no id to the Checkpoint Set (stated here    *)
(* for runs that reach DONE and a store that always throws or returns one  *)
(* outcome per operation).                                                 *)
(***************************************************************************)
C1_SecondRunNoSuccess ==
    (pc = "done" /\ run >= 2 /\ orderly) => (success = 0 /\ processed = loaded)

(***************************************************************************)
(* C1, amended.  The second run stages no id of the Checkpoint Set the     *)
(* first run persisted; when the first run left every stageable unit       *)
(* checkpointed, its success count is 0 and it adds no id.                 *)
(***************************************************************************)
C1_Idempotence ==
    (pc = "done" /\ run >= 2) =>
        /\ StagedIds \cap loaded = {}
        /\ processed \ loaded \subseteq StagedIds
        /\ Stageable \subseteq loaded =>
               /\ success = 0
               /\ processed = loaded
               /\ LoadProgress(file) = loaded

C1_Witness ==
    /\ pc = "done" /\ run = 2
    /\ "B" \in loaded
    /\ Stageable \subseteq loaded
    /\ skipped > 0
    /\ success = 0

(***************************************************************************)
(* C2.  A unit id that is in the Checkpoint Set when the unit is examined  *)
(* (loaded at INIT or added earlier in the run) is never passed to         *)
(* queueUpdate, and no flush of the run carries such an id.                *)
(***************************************************************************)
C2_CheckpointedNeverEnqueued ==
    /\ \A k \in 1..Len(staged) :
          /\ staged[k].id \notin staged[k].doneAtExam
          /\ loaded \subseteq staged[k].doneAtExam
    /\ Range(pendingIds) \subseteq StagedIds
    /\ FlushedIds \subseteq StagedIds

C2_Witness ==
    /\ run = 2 /\ pc = "done"
    /\ "B" \in loaded
    /\ "C" \in FlushedIds
    /\ "B" \notin StagedIds
    /\ "B" \in Stageable

(***************************************************************************)
(* C3.  Partial batch failure: when the store returns one outcome per      *)
(* submitted operation, then once the flush is reconciled exactly the ids  *)
(* at the positions without an error marker have been added to the         *)
(* Checkpoint Set (and persisted), and exactly the ids at the positions    *)
(* with an error marker have been appended to the Failure Log, in order.   *)
(***************************************************************************)
C3_PartialBatchFailure ==
    (HasFlush /\ Reconciled /\ Paired(Last)) =>
        /\ processed = Last.processedBefore
                          \cup { Last.pending[i] : i \in CleanPositions(Last) }
        /\ processed # Last.processedBefore => file = JsonArrayFile(processed)
        /\ LogKeeps(Last)
        /\ Len(LogSince(Last)) = Cardinality(ErrorPositions(Last))
        /\ \A k \in 1..Len(LogSince(Last)) :
              /\ LogSince(Last)[k].id = Last.pending[KthOf(ErrorPositions(Last), k)]
              /\ LogSince(Last)[k].reason = "bulk-" \o Last.reason

C3_Witness ==
    /\ HasFlush /\ Reconciled /\ Paired(Last)
    /\ Last.resp.items = << FALSE, TRUE, FALSE >>
    /\ Cardinality(processed \ Last.processedBefore) = 2
    /\ Len(LogSince(Last)) = 1

(***************************************************************************)
(* C4.  Transport failure recovery: when the request of a flush throws,    *)
(* every id pending in the batch is appended to the Failure Log, the       *)
(* Checkpoint Set is unchanged in memory and on disk, the buffer is        *)
(* cleared, and the driver continues at the point where it continues       *)
(* after a successful flush.                                               *)
(***************************************************************************)
C4_State ==
    (HasFlush /\ Last.resp.transport) =>
        /\ processed = Last.processedBefore
        /\ file = Last.fileBefore
        /\ pc \notin {"writeTmp", "rename"}
        /\ LogKeeps(Last)
        /\ pc = "append" =>
              /\ failedLog = Last.logBefore
              /\ bulkBody = << >> /\ bulkCount = 0 /\ pendingIds = << >>
        /\ Reconciled =>
              /\ Len(LogSince(Last)) = Len(Last.pending)
              /\ \A k \in 1..Len(Last.pending) :
                    /\ LogSince(Last)[k].id = Last.pending[k]
                    /\ LogSince(Last)[k].reason = "bulk-" \o Last.reason

C4_Step ==
    (HasFlush /\ Last.resp.transport /\ pc = "append" /\ pc' # "crashed") =>
        /\ pc' = IF Last.reason = "final" THEN "done"
                 ELSE IF variant = "point" THEN "loop" ELSE "stage"
        /\ UNCHANGED << run, evaluationIds, idx, cursorPos, rows, grouped, gidx >>

C4_TransportFailureRecovery == []C4_State /\ [][C4_Step]_vars

\* a unit is staged after a periodic flush of the same run failed in transport
C4_Witness ==
    /\ HasFlush /\ Last.resp.transport /\ Last.reason = "periodic"
    /\ Len(Last.pending) >= 2
    /\ pendingIds # << >>

(***************************************************************************)
(* C5.  Checkpoint durability: once a flush, periodic or final, that grew  *)
(* the in-memory Checkpoint Set is reconciled, and before the next unit is *)
(* examined, the checkpoint file holds exactly the in-memory set.          *)
(***************************************************************************)
C5_CheckpointDurability ==
    (HasFlush /\ pc \notin {"writeTmp", "rename"}
              /\ processed # Last.processedBefore) =>
        /\ file = JsonArrayFile(processed)
        /\ tmp = MissingFile

\* mid-run: persisted after a periodic flush, with the run still going
C5_Witness ==
    /\ HasFlush /\ Last.reason = "periodic"
    /\ pc \in {"loop", "stage"}
    /\ processed # Last.processedBefore
    /\ file = JsonArrayFile(processed)
    /\ Last.fileBefore # file

(***************************************************************************)
(* C6.  End-to-end scenario: seven units A..G, A checkpointed, B-F         *)
(* eligible, G with empty score details only, threshold 3, a store that    *)
(* reports full success: the run ends with skipped = 2, five units staged, *)
(* two non-empty flushes of sizes 3 and 2, and B-F in the Checkpoint Set.  *)
(***************************************************************************)
FullSuccess(f) ==
    /\ ~f.resp.transport
    /\ f.resp.items = [k \in 1..Len(f.pending) |-> FALSE]

C6_EndToEnd ==
    (/\ variant = "point" /\ db = EndToEndData /\ loaded = {"A"}
     /\ run = 1 /\ pc = "done"
     /\ \A k \in 1..Len(flushes) : FullSuccess(flushes[k]))
    => /\ skipped = 2
       /\ processedCount = 5
       /\ Len(staged) = 5
       /\ Len(flushes) = 2
       /\ Len(flushes[1].pending) = 3
       /\ Len(flushes[2].pending) = 2
       /\ processed = {"A", "B", "C", "D", "E", "F"}

(***************************************************************************)
(* C7.  The Checkpoint Set grows monotonically within and across runs: no  *)
(* step of a live process shrinks the in-memory set (the start of the next *)
(* run after DONE included), no step shrinks the set the checkpoint file   *)
(* holds, whatever replaces the file is a well-formed array, and the set a *)
(* run starts with holds everything the file held when it started.         *)
(***************************************************************************)
C7_Step ==
    /\ pc' \notin {"aborted", "crashed"} => processed \subseteq processed'
    /\ LoadProgress(file) \subseteq LoadProgress(file')
    /\ file' # file => file'.state = "ok"
    /\ (pc \in {"init", "done", "aborted", "crashed"} /\ pc' \in {"loop", "read"}) =>
           LoadProgress(file) \subseteq processed'

C7_Monotonic == [][C7_Step]_vars

\* the set grew in the first run, was loaded by the second, and grew again
C7_Witness ==
    /\ run = 2 /\ pc = "done"
    /\ loaded # {}
    /\ "B" \in loaded
    /\ processed # loaded
    /\ file = JsonArrayFile(processed)

(***************************************************************************)
(* C8.  Filtering correctness: every enqueued payload has at least one     *)
(* score detail and no empty one (slug, name and justification absent and  *)
(* no phrase); a unit with no detail row, or with empty ones only, is      *)
(* never enqueued.                                                         *)
(***************************************************************************)
EmptyScoreDetail(o) ==
    /\ o.categorySlug = Undef
    /\ o.categoryName = Undef
    /\ o.justification = Undef
    /\ o.phrases.items = << >>

EmptyDetailRow(r) ==
    /\ r.category_slug \in {Null, ""}
    /\ r.category_name \in {Null, ""}
    /\ r.justification \in {Null, ""}
    /\ r.phrases.items = << >>

C8_Filtering ==
    \A k \in 1..Len(staged) :
        LET sd == staged[k].doc.scoreDetails
            unit == db[IndexOf(staged[k].id)]
        IN  /\ Len(sd) >= 1
            /\ \A j \in 1..Len(sd) : ~EmptyScoreDetail(sd[j])
            /\ \E j \in 1..Len(unit.details) : ~EmptyDetailRow(unit.details[j])

(***************************************************************************)
(* C9.  Tenant exclusion: a unit whose tenant identifier is absent, or     *)
(* equals the excluded sentinel up to letter case, is never enqueued,      *)
(* never added to the Checkpoint Set and never written to the Failure      *)
(* Log, whatever its score details; every examination of it is counted as  *)
(* skipped.                                                                *)
(***************************************************************************)
\* the tenant identifier of a unit: its client's, else its contact's client's
TenantOf(u) ==
    IF u.client \notin {Null, ""} THEN u.client
    ELSE IF u.contactClient \notin {Null, ""} THEN u.contactClient
    ELSE Null

ExcludedTenant(u) ==
    TenantOf(u) \in {Null, EXCLUDED_CLIENT_ID, ExcludedUpper}

ExcludedUnits == { id \in UnitIds(db) : ExcludedTenant(db[IndexOf(id)]) }

\* the examinations of the units ex the run has made so far
ExcludedExaminations(ex) ==
    IF variant = "point"
    THEN Cardinality({ k \in 1..(idx - 1) : evaluationIds[k] \in ex })
    ELSE LET all == CursorRows(db)
         IN  Cardinality({ k \in 1..cursorPos : all[k].evaluation_id \in ex })

C9_TenantExclusion ==
    pc # "init" =>
        LET ex == ExcludedUnits
        IN  /\ ex \cap StagedIds = {}
            /\ ex \cap Range(pendingIds) = {}
            /\ ex \cap FlushedIds = {}
            /\ ex \cap (processed \ loaded) = {}
            /\ ex \cap LoggedIds(1, Len(failedLog)) = {}
            /\ skipped >= ExcludedExaminations(ex)

\* unit A, resolving to the sentinel in upper case and with a valid score
\* detail, was skipped while the unit next to it was written and checkpointed
C9_Witness ==
    /\ pc = "done"
    /\ db = StraddleData
    /\ skipped >= 1
    /\ "A" \notin StagedIds
    /\ "B" \in processed

(***************************************************************************)
(* C10.  Failures are retried: an id a flush classified as failed is not   *)
(* added to the Checkpoint Set by that flush, and in the next run the      *)
(* unit, when not checkpointed, is enqueued and submitted again.           *)
(***************************************************************************)
ClassifiedFailed(f, i) ==
    f.resp.transport \/ (i <= Len(f.resp.items) /\ f.resp.items[i])

C10_FailedNotCheckpointed ==
    (HasFlush /\ Reconciled) =>
        \A i \in 1..Len(Last.pending) :
            ClassifiedFailed(Last, i) =>
                Last.pending[i] \notin processed \ Last.processedBefore

C10_RetriedNextRun ==
    (pc = "done" /\ run >= 2) =>
        LoggedIds(1, logAtStart) \ loaded \subseteq FlushedIds

C10_FailuresRetried == C10_FailedNotCheckpointed /\ C10_RetriedNextRun

(***************************************************************************)
(* C11.  Crash atomicity of the checkpoint file: the file is never torn;   *)
(* it changes only by the rename, to the complete set being persisted;     *)
(* when the process is killed, the file is left as it is that moment: the  *)
(* set before the persist when the kill falls before the rename (between   *)
(* the write of the temporary file and the rename included), the set after *)
(* it otherwise; a file that held an array never ceases to; and the next   *)
(* run loads exactly that file.                                            *)
(***************************************************************************)
C11_State ==
    /\ file.state # "torn"
    /\ (HasFlush /\ pc \in {"writeTmp", "rename"}) => file = Last.fileBefore
    /\ pc = "rename" => tmp = JsonArrayFile(processed)

C11_Step ==
    /\ file' # file => /\ pc = "rename"
                       /\ file' = JsonArrayFile(processed)
                       /\ LoadProgress(file) \subseteq processed
    /\ file.state = "ok" => file'.state = "ok"
    /\ pc' = "crashed" =>
          /\ file' = file
          /\ IF pc \in {"writeTmp", "rename"}
             THEN file = Last.fileBefore
             ELSE (HasFlush /\ processed # Last.processedBefore) =>
                      file = JsonArrayFile(processed)
    /\ (pc = "crashed" /\ pc' # "crashed") =>
          /\ file' = file
          /\ processed' = LoadProgress(file)

C11_CrashAtomicity == []C11_State /\ [][C11_Step]_vars

\* the process was killed between the write of the temporary file and the
\* rename, and the next run has loaded the set from before the persist
C11_Witness ==
    /\ run = 2 /\ pc = "loop"
    /\ db = EndToEndData
    /\ tmp = JsonArrayFile({"A", "B", "C", "D"})
    /\ file = JsonArrayFile({"A"})
    /\ loaded = {"A"}

(***************************************************************************)
(* C12.  The Checkpoint Set contains only confirmed writes: every id of    *)
(* the in-memory set, of the checkpoint file and of the temporary file was *)
(* in the checkpoint file at the start, or was paired positionally with an *)
(* outcome without error marker by a flush whose request completed; and a  *)
(* flush adds no id but those its own response confirms.                   *)
(***************************************************************************)
C12_OnlyConfirmedWrites ==
    /\ processed \subseteq confirmed
    /\ LoadProgress(file) \subseteq confirmed
    /\ LoadProgress(tmp) \subseteq confirmed
    /\ HasFlush =>
          processed \ Last.processedBefore \subseteq ConfirmedIds(Last.resp, Last.pending)

\* B and D were confirmed, C came back with an error and is only in the log
C12_Witness ==
    /\ pc = "done" /\ HasFlush
    /\ Last.pending = << "B", "C", "D" >>
    /\ processed = {"A", "B", "D"}
    /\ file = JsonArrayFile(processed)
    /\ "C" \in LoggedIds(1, Len(failedLog))

(***************************************************************************)
(* C13.  Threshold flush: the number of buffered operations never exceeds  *)
(* the batch threshold; once it has reached the threshold the next thing   *)
(* the driver does is flush; and every periodic flush submits exactly      *)
(* threshold-many operations.                                              *)
(***************************************************************************)
Threshold == IF variant = "point" THEN BULK_FLUSH_SIZE ELSE StreamFlushSize

C13_ThresholdFlush ==
    /\ bulkCount <= Threshold
    /\ Len(pendingIds) <= Threshold
    /\ bulkCount >= Threshold => pc = "flush"
    /\ (pc = "flush" /\ flushReason = "periodic") => bulkCount = Threshold
    /\ \A k \in 1..Len(flushes) :
          flushes[k].reason = "periodic" => Len(flushes[k].pending) = Threshold

\* a periodic flush of threshold-many operations was written, and the driver has
\* gone on staging below the threshold
C13_Witness ==
    /\ HasFlush /\ Last.reason = "periodic"
    /\ Len(Last.pending) = Threshold
    /\ success = Threshold
    /\ bulkCount = 1
    /\ pc = "stage"

(***************************************************************************)
(* C14.  Final flush: a run that meets no kill and no query failure        *)
(* reaches DONE, through a flush issued as the final one, with an empty    *)
(* buffer and with the checkpoint file holding what the run added; and at  *)
(* every moment the ids of the operations staged so far are, in order, the *)
(* ids submitted by the flushes so far followed by the ids still buffered: *)
(* every staged operation is submitted in exactly one flush.               *)
(***************************************************************************)
RECURSIVE SubmittedUpTo(_)
\* the ids the first k flushes of the run submitted, in order
SubmittedUpTo(k) ==
    IF k = 0 THEN << >> ELSE SubmittedUpTo(k - 1) \o flushes[k].pending

StagedSeq == [k \in 1..Len(staged) |-> staged[k].id]

Running == pc \in {"loop", "read", "stage", "flush", "writeTmp", "rename", "append"}

C14_State ==
    /\ Running => SubmittedUpTo(Len(flushes)) \o pendingIds = StagedSeq
    /\ pc = "done" =>
          /\ bulkBody = << >> /\ bulkCount = 0 /\ pendingIds = << >>
          /\ flushReason = "final"
          /\ SubmittedUpTo(Len(flushes)) = StagedSeq
          /\ \A k \in 1..(Len(flushes) - 1) : flushes[k].reason = "periodic"
          /\ processed # loaded => file = JsonArrayFile(processed)

C14_FinalFlush ==
    /\ []C14_State
    /\ Running ~> (pc \in {"done", "aborted", "crashed"})

\* a run ended with a periodic flush of two operations and a final flush of one
C14_Witness ==
    /\ pc = "done"
    /\ Len(flushes) = 2
    /\ flushes[1].reason = "periodic"
    /\ Last.reason = "final"
    /\ Len(staged) = 3
    /\ success = 3

(***************************************************************************)
(* C15.  Positional pairing of the Batch Submitter: the buffer holds two   *)
(* entries per buffered operation and the list of pending ids one, in the  *)
(* order of staging (buffer length = 2 x pending ids = 2 x bulkCount; the  *)
(* i-th action header carries the i-th pending id and the index name of    *)
(* the i-th buffered target, the entry after it its payload); and the ids  *)
(* a flush returns as succeeded / failed are the ids at the positions of   *)
(* the outcomes without / with an error marker, in order.                  *)
(***************************************************************************)
\* the positions of flush f that have both an outcome and a pending id
PairedPositions(f, marker) ==
    { i \in 1..Len(f.pending) : i <= Len(f.resp.items) /\ f.resp.items[i] = marker }

IdsAt(f, S) == [k \in 1..Cardinality(S) |-> f.pending[KthOf(S, k)]]

C15_PositionalPairing ==
    /\ Len(bulkBody) = 2 * Len(pendingIds)
    /\ bulkCount = Len(pendingIds)
    /\ Len(pendingIds) <= Len(staged)
    /\ \A i \in 1..Len(pendingIds) :
          LET t == staged[Len(staged) - Len(pendingIds) + i]
          IN  /\ pendingIds[i] = t.id
              /\ bulkBody[2 * i - 1].update._id = pendingIds[i]
              /\ bulkBody[2 * i - 1].update._index = t.indexName
              /\ bulkBody[2 * i].doc = t.doc
    /\ (HasFlush /\ pc \in {"writeTmp", "rename", "append"}) =>
          IF Last.resp.transport
          THEN res.succeededIds = << >> /\ res.failedIds = Last.pending
          ELSE /\ res.succeededIds = IdsAt(Last, PairedPositions(Last, FALSE))
               /\ res.failedIds = IdsAt(Last, PairedPositions(Last, TRUE))

\* a flush of three operations has just been classified, the error in the middle
C15_Witness ==
    /\ HasFlush /\ pc = "writeTmp"
    /\ Last.pending = << "B", "C", "D" >>
    /\ Last.resp.items = << FALSE, TRUE, FALSE >>
    /\ res.succeededIds = << "B", "D" >>
    /\ res.failedIds = << "C" >>

(***************************************************************************)
(* C16.  In the streaming-cursor variant each fetched batch is grouped and *)
(* staged on its own: the groups of a batch are the units with a row in it *)
(* that were neither checkpointed when it was fetched nor of an excluded   *)
(* tenant, each group and each staged operation carries the score details  *)
(* of the rows of its unit in that batch only, and no batch stages a unit  *)
(* twice; so a unit with rows in two fetched batches, not checkpointed in  *)
(* between, is enqueued once per batch under the same document id.         *)
(***************************************************************************)
\* the score details of the rows of unit id among the cursor rows from+1..to
DetailsWithin(id, from, to) ==
    LET OfUnit(r) == r.evaluation_id = id
        part == SelectSeq(SubSeq(CursorRows(db), from + 1, to), OfUnit)
    IN  [k \in 1..Len(part) |-> ToScoreDetail(part[k])]

\* where the fetched batch that ends at row `to` begins
BatchStart(to) == IF to = 0 THEN 0 ELSE ((to - 1) \div StreamBatchSize) * StreamBatchSize

C16_StreamSplit ==
    variant = "stream" =>
        /\ \A k \in 1..Len(staged) :
              /\ staged[k].doc.scoreDetails =
                     DetailsWithin(staged[k].id, BatchStart(staged[k].at), staged[k].at)
              /\ \A l \in 1..Len(staged) :
                     (l # k /\ staged[l].id = staged[k].id) => staged[l].at # staged[k].at
        /\ pc = "stage" =>
              /\ Len(rows) <= StreamBatchSize
              /\ Len(rows) > 0 => cursorPos - Len(rows) = BatchStart(cursorPos)
              /\ rows = SubSeq(CursorRows(db), cursorPos - Len(rows) + 1, cursorPos)
              /\ { grouped[g].evId : g \in 1..Len(grouped) } =
                     { rows[k].evaluation_id : k \in 1..Len(rows) }
                        \ (examDone \cup ExcludedUnits)
              /\ \A g \in 1..Len(grouped) :
                     /\ grouped[g].details =
                            DetailsWithin(grouped[g].evId, cursorPos - Len(rows), cursorPos)
                     /\ g < gidx =>
                            \E k \in 1..Len(staged) :
                                /\ staged[k].id = grouped[g].evId
                                /\ staged[k].at = cursorPos
                                /\ staged[k].doc.scoreDetails = grouped[g].details

\* unit B, whose two rows came in two fetches, was enqueued twice, each
\* operation with the one score detail of its own fetch
C16_Witness ==
    /\ variant = "stream" /\ db = StraddleData
    /\ Len(staged) >= 2
    /\ staged[1].id = "B" /\ staged[2].id = "B"
    /\ staged[1].doc.scoreDetails = << ToScoreDetail(EmptyRow) >>
    /\ staged[2].doc.scoreDetails = << ToScoreDetail(JustRow) >>
    /\ staged[1].indexName = staged[2].indexName

(***************************************************************************)
(* C17.  Fatal abort as stated: a query failure ends the run at once, with *)
(* nothing more staged, flushed or written; at that moment the checkpoint  *)
(* file holds every id the run has added to the Checkpoint Set, and the    *)
(* ids staged but not yet flushed are in neither the Checkpoint Set nor    *)
(* the Failure Log.                                                        *)
(***************************************************************************)
\* what holds of every abort
AbortKeepsProgress ==
    /\ file' = file /\ tmp' = tmp /\ failedLog' = failedLog
    /\ pc \notin {"writeTmp", "rename", "append"}
    /\ processed \ loaded \subseteq LoadProgress(file)
    /\ LoadProgress(file) \subseteq processed
    /\ Range(pendingIds) \cap processed = {}
    /\ Range(pendingIds) \cap LoadProgress(file) = {}
    /\ lost' = Range(pendingIds)

\* an ended process does nothing until the next run is started
EndedIsQuiet ==
    pc \in {"aborted", "crashed"} =>
        /\ file' = file /\ tmp' = tmp /\ failedLog' = failedLog
        /\ pc' \in {"loop", "read"} /\ run' = run + 1

C17_StepAsStated ==
    /\ EndedIsQuiet
    /\ pc' = "aborted" =>
          /\ AbortKeepsProgress
          /\ Range(pendingIds) \cap LoggedIds(1, Len(failedLog)) = {}

C17_Step ==
    /\ EndedIsQuiet
    /\ pc' = "aborted" =>
          /\ AbortKeepsProgress
          /\ Range(pendingIds) \cap LoggedIds(logAtStart + 1, Len(failedLog))
                \subseteq FlushedIds
          /\ variant = "point" =>
                Range(pendingIds) \cap LoggedIds(logAtStart + 1, Len(failedLog)) = {}

C17_State ==
    (pc = "done" /\ lost # {}) =>
        /\ lost \cap loaded = {}
        /\ lost \subseteq StagedIds
        /\ lost \subseteq FlushedIds

Discovered ==
    IF variant = "point" THEN Range(DistinctEvaluationIds(db))
    ELSE { CursorRows(db)[k].evaluation_id : k \in 1..Len(CursorRows(db)) }

\* the run went through all discovered units
CapNotReached == variant = "point" => idx > Len(evaluationIds)

C18_Accounting ==
    (pc = "done" /\ CapNotReached) =>
        /\ skipped + Len(staged) = Cardinality(Discovered)
        /\ skipped = Cardinality(Discovered \ StagedIds)

\* the same, of the point-query driver alone
C18_PointAccounting == variant = "point" => C18_Accounting

(***************************************************************************)
(* C19.  No id is lost by a flush: once a non-empty flush is reconciled,   *)
(* every operation that was pending in it is classified exactly once, as   *)
(* succeeded (its id then in the Checkpoint Set) or as failed (its id then *)
(* appended to the Failure Log), whatever number of outcomes the store     *)
(* returned; and the ok and fail counts returned add up to the number of   *)
(* operations submitted.                                                   *)
(***************************************************************************)
\* how often id occurs in the sequence s
Occurrences(s, id) == Cardinality({ k \in 1..Len(s) : s[k] = id })

LogSinceIds(f) == [k \in 1..Len(LogSince(f)) |-> LogSince(f)[k].id]

C19_NoIdLost ==
    (HasFlush /\ Reconciled) =>
        /\ \A id \in Range(Last.pending) :
              /\ id \in processed \/ Occurrences(LogSinceIds(Last), id) > 0
              /\ ~(id \in processed /\ Occurrences(LogSinceIds(Last), id) > 0)
              /\ Occurrences(LogSinceIds(Last), id) <= Occurrences(Last.pending, id)
        /\ success + failed = Len(SubmittedUpTo(Len(flushes)))

\* the same, of the point-query driver with a store that throws or returns one
\* outcome per operation
C19_PointPaired ==
    (/\ variant = "point"
     /\ \A k \in 1..Len(flushes) : flushes[k].resp.transport \/ Paired(flushes[k]))
    => C19_NoIdLost

(***************************************************************************)
(* C20.  The two variants are interchangeable: started from the same       *)
(* Checkpoint Set over the same data, with every unit's rows inside one    *)
(* fetched batch and no cap reached, a run of either stages exactly the    *)
(* (index name, document id, payload) targets a run of the other stages.   *)
(***************************************************************************)
\* the targets the point-query driver stages from the checkpoint `done`
PointWouldStage(d, done) ==
    { [indexName |-> PointTarget(d, done, id).indexName, id |-> id,
       doc |-> PointTarget(d, done, id).doc] :
          id \in { i \in Range(DistinctEvaluationIds(d)) :
                       PointTarget(d, done, i).eligible } }

\* the targets the cursor driver stages from the checkpoint `done` when no unit
\* is split across fetched batches
StreamWouldStage(d, done) ==
    LET groups == GroupRows(CursorRows(d), done, << >>)
    IN  { [indexName |-> StreamIndexName(groups[g].clientId), id |-> groups[g].evId,
           doc |-> [scoreDetails |-> groups[g].details]] :
              g \in { h \in 1..Len(groups) : Len(groups[h].details) > 0 } }

StagedTargets ==
    { [indexName |-> staged[k].indexName, id |-> staged[k].id, doc |-> staged[k].doc] :
          k \in 1..Len(staged) }

\* all rows of every unit come in one fetch of the cursor
OneBatchPerUnit ==
    LET all == CursorRows(db)
    IN  \A k, l \in 1..Len(all) :
            all[k].evaluation_id = all[l].evaluation_id =>
                (k - 1) \div StreamBatchSize = (l - 1) \div StreamBatchSize

C20_Interchangeable ==
    (pc = "done" /\ CapNotReached /\ OneBatchPerUnit) =>
        /\ StagedTargets = PointWouldStage(db, loaded)
        /\ StagedTargets = StreamWouldStage(db, loaded)

\* each driver stages what the operator written for it says
C20_OwnTargets ==
    (pc = "done" /\ CapNotReached /\ OneBatchPerUnit) =>
        StagedTargets = IF variant = "point" THEN PointWouldStage(db, loaded)
                        ELSE StreamWouldStage(db, loaded)

====
